---- MODULE Spec2Model ----
(***************************************************************************)
(* Evolution Strategies on Ray (rllib/algorithms/es/es.py): the shared     *)
(* noise table, the workers' do_rollouts loop, the coordinator's           *)
(* _collect_results rounds and the aggregation and update of ES.step.      *)
(*                                                                         *)
(* Numbers.  float32 values are modelled as integers in fixed point: the   *)
(* noise table holds integers, parameter vectors are counted in units of   *)
(* 1/stdev_den where noise_stdev = stdev_num/stdev_den, and the gradient   *)
(* estimate is kept as an exact fraction (numerator vector, denominator).  *)
(* Rounding of float32 arithmetic is not modelled.                         *)
(***************************************************************************)
EXTENDS Integers, Sequences, FiniteSets, TLC

\* ---------------------------------------------------------------- bounds
\* Largest worker pool a configuration asks for (config["num_workers"]).
MaxWorkers == 2
\* Training iterations (calls of ES.step) in one behaviour.
MaxSteps == 2
\* Evaluation rollouts one do_rollouts call may run before a perturbation.
MaxEvals == 1
\* Longest noise table the table operations are tried on.
MaxCount == 5
\* Most pairs (weight, vector), or pairs of returns, the aggregation's
\* functions are tried on.
MaxPairs == 3

\* ------------------------------------------------------------- sequences
Sum(s) ==
  LET RECURSIVE go(_)
      go(k) == IF k = 0 THEN 0 ELSE s[k] + go(k - 1)
  IN go(Len(s))

Sgn(x) == IF x > 0 THEN 1 ELSE IF x < 0 THEN -1 ELSE 0

\* np.sign(rewards).sum()
SignSum(s) == Sum([k \in 1..Len(s) |-> Sgn(s[k])])

\* Python's list += list over a list of lists.
Flatten(ss) ==
  LET RECURSIVE go(_)
      go(k) == IF k = 0 THEN <<>> ELSE go(k - 1) \o ss[k]
  IN go(Len(ss))

Zeros(n) == [k \in 1..n |-> 0]

\* ------------------------------------------------------ shared noise table
\* The value randn of the seeded generator puts at (0-based) position i.
\* RandomState(123) is deterministic; any fixed sequence stands for it.
NoiseAt(i) == ((i * i + 3 * i + 2) % 7) - 3

\* create_shared_noise(count)
create_shared_noise(count) == [k \in 1..count |-> NoiseAt(k - 1)]

\* Python's slice a[i : j] for 0 <= i: both ends are clipped to len(a).
Slice(a, i, j) ==
  LET lo == IF i > Len(a) THEN Len(a) ELSE i
      hi == IF j > Len(a) THEN Len(a) ELSE j
  IN  IF hi <= lo THEN <<>> ELSE [k \in 1..(hi - lo) |-> a[lo + k]]

\* SharedNoiseTable.get(i, dim): self.noise[i : i + dim]
get(table, i, dim) == Slice(table, i, i + dim)

\* Mutant: randint's upper end taken as inclusive.
sample_index_inclusive(table, dim) == 0..(Len(table) - dim + 1)

\* SharedNoiseTable.sample_index(dim): the values randint(0, len - dim + 1)
\* can return (the upper end is exclusive).
sample_index(table, dim) == 0..(Len(table) - dim)

\* ------------------------------------------------------------ configuration
\* An environment is the set of reward sequences one episode can yield.
EnvOne == {<<1, 1>>}
EnvSmall == {<<1, 1>>, <<-1>>}
EnvWide == {<<1, 1>>, <<-1>>, <<0>>, <<1>>}
EnvE2E == {<<1, 1>>, <<-1, -1>>}

\* A run: the configuration (with the policy's parameter count and initial
\* weights, and the environment) and the number of training iterations the
\* driver asks for. eval_prob is in percent, min_task_runtime in clock
\* ticks, noise_stdev = stdev_num/stdev_den, l2_coeff = l2_num/l2_den.
BaseConfig ==
  [num_workers |-> 1, num_gpus |-> 0, eval_num_envs |-> 1,
   eval_filter |-> "NoFilter", episodes_per_batch |-> 1,
   train_batch_size |-> 1, noise_size |-> 3, num_params |-> 2,
   stdev_num |-> 1, stdev_den |-> 50, eval_prob |-> 3,
   min_task_runtime |-> 1, l2_num |-> 1, l2_den |-> 200,
   theta0 |-> <<0, 0>>, env |-> EnvSmall, iterations |-> 1]

\* Pools of every size over several iterations and rounds; one noise window
\* and one episode outcome.
PoolConfigs ==
  UNION { { [BaseConfig EXCEPT !.num_workers = w, !.episodes_per_batch = e,
                               !.noise_size = 2, !.eval_prob = 0,
                               !.env = EnvOne, !.iterations = MaxSteps] :
              e \in {1, 2 * w + 1} } :
          w \in 1..MaxWorkers }

\* One worker against quotas that take several rounds, either one binding.
QuotaConfigs ==
  { [BaseConfig EXCEPT !.episodes_per_batch = q[1], !.train_batch_size = q[2],
                       !.noise_size = 2, !.eval_prob = 0] :
      q \in {<<5, 1>>, <<1, 5>>} }

\* Every noise window, episode outcome and branch of the worker's loop.
DataConfigs ==
  { [BaseConfig EXCEPT !.num_workers = w] : w \in {1, 2} }
  \cup { [BaseConfig EXCEPT !.min_task_runtime = 2] }

\* Configurations validate_config refuses.
BadConfigs ==
  { [BaseConfig EXCEPT !.num_workers = 0],
    [BaseConfig EXCEPT !.num_gpus = 2],
    [BaseConfig EXCEPT !.eval_num_envs = 2],
    [BaseConfig EXCEPT !.eval_filter = "MeanStdFilter"] }

\* Two workers against an environment with four different returns.
RankConfigs ==
  { [BaseConfig EXCEPT !.num_workers = 2, !.eval_prob = 0, !.env = EnvWide] }

Configs ==
  PoolConfigs \cup QuotaConfigs \cup DataConfigs \cup RankConfigs
  \cup BadConfigs

\* ------------------------------------------------------------------- state
VARIABLES
  cfg,              \* self.config (and the policy's num_params, the env)
  pc,               \* where the coordinator is
  noise,            \* self.noise.noise, the coordinator's table
  workers,          \* self.workers: one record per Worker actor
  theta,            \* self.policy's flat weights
  optimizer,        \* self.optimizer: Adam's step counter and moments
  episodes_so_far,  \* self.episodes_so_far
  counters,         \* self._counters
  theta_id,         \* the object ray.put(theta) stored for this iteration
  num_episodes,     \* _collect_results' num_episodes
  num_timesteps,    \* _collect_results' num_timesteps
  results,          \* _collect_results' results
  report,           \* what the last completed ES.step computed and returned
  hist,             \* history of the run, read by the properties only
  probe             \* a direct call of a noise-table operation and its result

vars == <<cfg, probe, pc, noise, workers, theta, optimizer, episodes_so_far, counters,
          theta_id, num_episodes, num_timesteps, results, report, hist>>

NoReport == [done |-> FALSE]

NoProbe == [op |-> "none"]

\* Of the iteration under way: its rounds, calls, bundles, rollouts and the
\* state it started from. Of the whole run: the iterations started, the
\* episodes_this_iter each completed iteration reported, and the last
\* checkpoint restored (after how many completed iterations, and the
\* episodes_so_far it held).
NoHist == [steps |-> 0, round_starts |-> <<>>, calls |-> <<>>,
           produced |-> <<>>, legs |-> <<>>, snap |-> <<>>,
           iters |-> <<>>, restored |-> [at |-> 0, episodes_so_far |-> 0]]

InitWith(C) ==
  /\ cfg \in C
  /\ probe = NoProbe
  /\ pc = "new"
  /\ noise = <<>>
  /\ workers = <<>>
  /\ theta = <<>>
  /\ optimizer = [t |-> 0, m |-> <<>>, v |-> <<>>]
  /\ episodes_so_far = 0
  /\ counters = [agent_sampled |-> 0, env_sampled |-> 0,
                 agent_trained |-> 0, env_trained |-> 0]
  /\ theta_id = <<>>
  /\ num_episodes = 0
  /\ num_timesteps = 0
  /\ results = <<>>
  /\ report = NoReport
  /\ hist = NoHist

Init == InitWith(Configs)

\* ------------------------------------------------------------------- setup
\* Mutant: the size of the pool is not looked at.
validate_config_any_pool(c) ==
  /\ ~(c.num_gpus > 1)
  /\ ~(c.eval_num_envs # 1)
  /\ ~(c.eval_filter # "NoFilter")

\* ES.validate_config: the configuration is accepted.
validate_config(c) ==
  /\ ~(c.num_gpus > 1)
  /\ ~(c.num_workers <= 0)
  /\ ~(c.eval_num_envs # 1)
  /\ ~(c.eval_filter # "NoFilter")

NoBundle ==
  [noise_indices |-> <<>>, noisy_returns |-> <<>>, sign_noisy_returns |-> <<>>,
   noisy_lengths |-> <<>>, eval_returns |-> <<>>, eval_lengths |-> <<>>]

\* Mutant: the actor generates a table of its own from another seed.
NewWorkerOwnTable(table) ==
  [pc |-> "idle", noise |-> [k \in 1..Len(table) |-> NoiseAt(k)],
   params |-> <<>>, weights |-> cfg.theta0, add_noise |-> TRUE,
   clock |-> 0, acc |-> NoBundle]

\* Worker.__init__: the actor holds the table it was handed and a policy.
\* weights are the policy's flat weights and add_noise the argument of the
\* latest call of Worker.rollout (TRUE, its default, before the first).
NewWorker(table) ==
  [pc |-> "idle", noise |-> table, params |-> <<>>,
   weights |-> cfg.theta0, add_noise |-> TRUE, clock |-> 0, acc |-> NoBundle]

WorkerIds == 1..Len(workers)

\* ES.setup
Setup ==
  /\ pc = "new"
  /\ IF validate_config(cfg)
       THEN LET table == create_shared_noise(cfg.noise_size) IN
            /\ pc' = "idle"
            /\ theta' = cfg.theta0
            /\ optimizer' = [t |-> 0, m |-> Zeros(cfg.num_params),
                             v |-> Zeros(cfg.num_params)]
            /\ noise' = table
            /\ workers' = [w \in 1..cfg.num_workers |-> NewWorker(table)]
            /\ episodes_so_far' = 0
       ELSE /\ pc' = "config_error"
            /\ UNCHANGED <<theta, optimizer, noise, workers, episodes_so_far>>
  /\ UNCHANGED <<cfg, probe, counters, theta_id, num_episodes, num_timesteps,
                 results, report, hist>>

\* ------------------------------------------------------------------ worker
VecAdd(a, b) == [k \in 1..Len(a) |-> a[k] + b[k]]
VecSub(a, b) == [k \in 1..Len(a) |-> a[k] - b[k]]
VecScale(c, a) == [k \in 1..Len(a) |-> c * a[k]]

\* Mutant: the loop goes on only while both conditions hold.
LoopContinuesBoth(wk) ==
  Len(wk.acc.noise_indices) = 0 /\ wk.clock < cfg.min_task_runtime

\* The loop condition of do_rollouts.
LoopContinues(wk) ==
  Len(wk.acc.noise_indices) = 0 \/ wk.clock < cfg.min_task_runtime

\* time.time() - task_tstart after d more ticks. The clock is counted in
\* ticks, a pass of the loop takes one or two of them, and the value is kept
\* only up to min_task_runtime, beyond which the loop does not tell it apart.
Elapsed(clock, d) ==
  IF clock + d > cfg.min_task_runtime THEN cfg.min_task_runtime ELSE clock + d

\* The actor takes the call: set_flat_weights(params), empty accumulators,
\* task_tstart = now.
DoRolloutsBegin(w) ==
  /\ workers[w].pc = "called"
  /\ workers' = [workers EXCEPT ![w].pc = "running",
                                ![w].weights = workers[w].params,
                                ![w].clock = 0,
                                ![w].acc = NoBundle]
  /\ UNCHANGED <<cfg, probe, pc, noise, theta, optimizer, episodes_so_far, counters,
                 theta_id, num_episodes, num_timesteps, results, report, hist>>

\* Mutant: the length of the evaluation rollout is not kept.
EvalAccNoLength(acc, rewards) ==
  [acc EXCEPT !.eval_returns = Append(@, Sum(rewards))]

\* One pass of the loop through the evaluation branch.
EvalAcc(acc, rewards) ==
  [acc EXCEPT !.eval_returns = Append(@, Sum(rewards)),
              !.eval_lengths = Append(@, Len(rewards))]

\* np.random.uniform() < eval_prob can be true: uniform draws from [0, 1).
EvalBranch == cfg.eval_prob > 0

\* Mutant: the perturbation branch can be taken whatever eval_prob is.
PerturbBranchAlways == TRUE

\* np.random.uniform() < eval_prob can be false.
PerturbBranch == cfg.eval_prob < 100

\* Mutant: the evaluation runs with the weights the policy has.
EvalWeightsStale(wk) == wk.weights

\* The weights set for the evaluation rollout: set_flat_weights(params)
EvalWeights(wk) == wk.params

EvalRollout(w) ==
  /\ workers[w].pc = "running"
  /\ LoopContinues(workers[w])
  /\ EvalBranch
  /\ Len(workers[w].acc.eval_returns) < MaxEvals
  /\ \E rewards \in cfg.env, d \in 1..2 :
       workers' = [workers EXCEPT
         ![w].weights = EvalWeights(workers[w]),
         ![w].add_noise = FALSE,
         ![w].clock = Elapsed(workers[w].clock, d),
         ![w].acc = EvalAcc(workers[w].acc, rewards)]
  /\ UNCHANGED <<cfg, probe, pc, noise, theta, optimizer, episodes_so_far, counters,
                 theta_id, num_episodes, num_timesteps, results, report, hist>>

\* noise_stdev * self.noise.get(noise_index, num_params), in units 1/stdev_den
Perturbation(wk, noise_index) ==
  VecScale(cfg.stdev_num, get(wk.noise, noise_index, cfg.num_params))

\* Mutant: the two returns are recorded in the other order.
PerturbAccSwapped(acc, noise_index, rewards_pos, rewards_neg) ==
  [acc EXCEPT
     !.noise_indices = Append(@, noise_index),
     !.noisy_returns = Append(@, <<Sum(rewards_neg), Sum(rewards_pos)>>),
     !.sign_noisy_returns =
        Append(@, <<SignSum(rewards_pos), SignSum(rewards_neg)>>),
     !.noisy_lengths = Append(@, <<Len(rewards_pos), Len(rewards_neg)>>)]

PerturbAcc(acc, noise_index, rewards_pos, rewards_neg) ==
  [acc EXCEPT
     !.noise_indices = Append(@, noise_index),
     !.noisy_returns = Append(@, <<Sum(rewards_pos), Sum(rewards_neg)>>),
     !.sign_noisy_returns =
        Append(@, <<SignSum(rewards_pos), SignSum(rewards_neg)>>),
     !.noisy_lengths = Append(@, <<Len(rewards_pos), Len(rewards_neg)>>)]

\* Mutant: the second rollout runs with the perturbation added again.
LegsSameSign(wk, noise_index, rewards_pos, rewards_neg) ==
  [noise_index |-> noise_index,
   weights_pos |-> VecAdd(wk.params, Perturbation(wk, noise_index)),
   rewards_pos |-> rewards_pos,
   weights_neg |-> VecAdd(wk.params, Perturbation(wk, noise_index)),
   rewards_neg |-> rewards_neg]

\* The two rollouts of one pass: the weights each ran with and its rewards.
Legs(wk, noise_index, rewards_pos, rewards_neg) ==
  [noise_index |-> noise_index,
   weights_pos |-> VecAdd(wk.params, Perturbation(wk, noise_index)),
   rewards_pos |-> rewards_pos,
   weights_neg |-> VecSub(wk.params, Perturbation(wk, noise_index)),
   rewards_neg |-> rewards_neg]

\* One pass of the loop through the perturbation branch: both rollouts.
PerturbRollout(w) ==
  /\ workers[w].pc = "running"
  /\ LoopContinues(workers[w])
  /\ PerturbBranch
  /\ \E noise_index \in sample_index(workers[w].noise, cfg.num_params),
        rewards_pos \in cfg.env, rewards_neg \in cfg.env, d \in 1..2 :
       LET legs == Legs(workers[w], noise_index, rewards_pos, rewards_neg) IN
       /\ workers' = [workers EXCEPT
            ![w].weights = legs.weights_neg,
            ![w].add_noise = TRUE,
            ![w].clock = Elapsed(workers[w].clock, d),
            ![w].acc = PerturbAcc(workers[w].acc, noise_index,
                                  rewards_pos, rewards_neg)]
       /\ hist' = [hist EXCEPT !.legs[w] = Append(@, legs)]
  /\ UNCHANGED <<cfg, probe, pc, noise, theta, optimizer, episodes_so_far,
                 counters, theta_id, num_episodes, num_timesteps, results,
                 report>>

\* A rollout raises (the environment or the policy fails): the call ends
\* with the exception as its result. The policy keeps the weights set for
\* the failing rollout.
RolloutRaises(w) ==
  /\ workers[w].pc = "running"
  /\ LoopContinues(workers[w])
  /\ \/ /\ EvalBranch
        /\ workers' = [workers EXCEPT ![w].pc = "raised",
                                      ![w].weights = EvalWeights(workers[w]),
                                      ![w].add_noise = FALSE]
     \/ /\ PerturbBranch
        /\ \E noise_index \in sample_index(workers[w].noise, cfg.num_params),
              sign \in {1, -1} :
             workers' = [workers EXCEPT
               ![w].pc = "raised",
               ![w].add_noise = TRUE,
               ![w].weights =
                  VecAdd(workers[w].params,
                         VecScale(sign, Perturbation(workers[w], noise_index)))]
  /\ UNCHANGED <<cfg, probe, pc, noise, theta, optimizer, episodes_so_far, counters,
                 theta_id, num_episodes, num_timesteps, results, report, hist>>

\* The loop condition is false: the call returns its Result.
DoRolloutsReturn(w) ==
  /\ workers[w].pc = "running"
  /\ ~LoopContinues(workers[w])
  /\ workers' = [workers EXCEPT ![w].pc = "returned"]
  /\ hist' = [hist EXCEPT !.produced[w] = Append(@, workers[w].acc)]
  /\ UNCHANGED <<cfg, probe, pc, noise, theta, optimizer, episodes_so_far, counters,
                 theta_id, num_episodes, num_timesteps, results, report>>

\* ------------------------------------------------------------- aggregation
\* Mutant: the values themselves are taken for their ranks.
compute_ranks_values(x) == x

\* utils.compute_ranks: the rank of each element of x in 0..len(x)-1, equal
\* values ranked in their original order.
compute_ranks(x) ==
  [k \in 1..Len(x) |->
     Cardinality({j \in 1..Len(x) : x[j] < x[k] \/ (x[j] = x[k] /\ j < k)})]

\* utils.compute_centered_ranks over the N x 2 array of returns: the centered
\* rank r/(size-1) - 1/2 of every entry, as the numerator 2r - (size-1) over
\* the common denominator 2(size-1); reshaped back to N x 2.
compute_centered_ranks(returns) ==
  LET flat == Flatten(returns)
      r == compute_ranks(flat)
      size == Len(flat)
  IN  [i \in 1..Len(returns) |->
         <<2 * r[2 * i - 1] - (size - 1), 2 * r[2 * i] - (size - 1)>>]

\* np.dot(weights, vectors) over the pairs lo..hi
DotRange(weights, vectors, lo, hi, dim) ==
  LET RECURSIVE go(_)
      go(i) == IF i < lo THEN Zeros(dim)
               ELSE VecAdd(go(i - 1), VecScale(weights[i], vectors[i]))
  IN go(hi)

\* Mutant: a last batch shorter than batch_size is left out.
batched_weighted_sum_whole(weights, vectors, batch_size, dim) ==
  LET n == Len(weights)
      RECURSIVE go(_)
      go(lo) ==
        IF lo + batch_size - 1 > n /\ lo > 1
          THEN [total |-> Zeros(dim), count |-> 0]
        ELSE IF lo > n THEN [total |-> Zeros(dim), count |-> 0]
        ELSE LET hi == IF lo + batch_size - 1 > n THEN n
                       ELSE lo + batch_size - 1
                 rest == go(hi + 1)
             IN  [total |-> VecAdd(DotRange(weights, vectors, lo, hi, dim),
                                   rest.total),
                  count |-> (hi - lo + 1) + rest.count]
  IN go(1)

\* utils.batched_weighted_sum: the sum of weights[i] * vectors[i], taken
\* batch_size pairs at a time, and the number of pairs summed.
batched_weighted_sum(weights, vectors, batch_size, dim) ==
  LET n == Len(weights)
      RECURSIVE go(_)
      go(lo) ==
        IF lo > n THEN [total |-> Zeros(dim), count |-> 0]
        ELSE LET hi == IF lo + batch_size - 1 > n THEN n
                       ELSE lo + batch_size - 1
                 rest == go(hi + 1)
             IN  [total |-> VecAdd(DotRange(weights, vectors, lo, hi, dim),
                                   rest.total),
                  count |-> (hi - lo + 1) + rest.count]
  IN go(1)

\* Mutant: the last bundle is left out.
AllOfButLast(rs, field) ==
  Flatten([k \in 1..(Len(rs) - 1) |-> rs[k][field]])

\* The loop of ES.step over the results: the lists it concatenates.
AllOf(rs, field) == Flatten([k \in 1..Len(rs) |-> rs[k][field]])

all_noise_indices(rs) == AllOf(rs, "noise_indices")
all_training_returns(rs) == AllOf(rs, "noisy_returns")
all_training_lengths(rs) == AllOf(rs, "noisy_lengths")
all_eval_returns(rs) == AllOf(rs, "eval_returns")
all_eval_lengths(rs) == AllOf(rs, "eval_lengths")

\* Mutant: every weight subtracts the first pair's negative score.
StepWeightsFirstNeg(proc) == [i \in 1..Len(proc) |-> proc[i][1] - proc[1][2]]

\* proc_noisy_returns[:, 0] - proc_noisy_returns[:, 1]
StepWeights(proc) == [i \in 1..Len(proc) |-> proc[i][1] - proc[i][2]]

\* The gradient estimate of ES.step from the collected results: the weighted
\* sum of the noise windows divided by noisy_returns.size, as a fraction.
\* The weights carry the denominator 2(size-1) of the centered ranks.
Gradient(table, rs, dim) ==
  LET noise_indices == all_noise_indices(rs)
      noisy_returns == all_training_returns(rs)
      size == 2 * Len(noisy_returns)
      proc == compute_centered_ranks(noisy_returns)
      weights == StepWeights(proc)
      vectors == [i \in 1..Len(noise_indices) |->
                    get(table, noise_indices[i], dim)]
      bws == batched_weighted_sum(weights, vectors, 500, dim)
  IN  [num |-> bws.total, den |-> 2 * (size - 1) * size,
       count |-> bws.count, weights |-> weights,
       weight_den |-> 2 * (size - 1)]

\* The assertions of ES.step on the concatenated lists.
ListAsserts(rs) ==
  /\ Len(all_eval_returns(rs)) = Len(all_eval_lengths(rs))
  /\ Len(all_noise_indices(rs)) = Len(all_training_returns(rs))
  /\ Len(all_training_returns(rs)) = Len(all_training_lengths(rs))

\* The assertions of ES.step.
StepAsserts(rs, grad, dim) ==
  /\ ListAsserts(rs)
  /\ Len(grad.num) = dim
  /\ grad.count = Len(all_noise_indices(rs))

\* optimizers.Adam.update(-g + l2_coeff * theta), in fixed point: the step
\* counter grows by one, the moments take in the direction, and theta moves
\* one unit against the first moment. The direction's sign is that of
\* -g + l2_coeff * theta, with all denominators cleared.
AdamUpdate(opt, th, grad) ==
  LET dir == [k \in 1..Len(th) |->
                Sgn(cfg.l2_num * th[k] * grad.den
                    - grad.num[k] * cfg.l2_den * cfg.stdev_den)]
      m == VecAdd(opt.m, dir)
      v == VecAdd(opt.v, [k \in 1..Len(th) |-> dir[k] * dir[k]])
  IN  [opt |-> [t |-> opt.t + 1, m |-> m, v |-> v],
       theta |-> [k \in 1..Len(th) |-> th[k] - Sgn(m[k])]]

\* ------------------------------------------------------------- coordinator
Snapshot ==
  [theta |-> theta, optimizer |-> optimizer,
   episodes_so_far |-> episodes_so_far, counters |-> counters]

\* Mutant: the object stored at setup is handed out again.
PutThetaOnce(th) == cfg.theta0

\* The object ray.put(theta) stores.
PutTheta(th) == th

\* ES.step up to the call of _collect_results, and the head of that call.
StepBegin ==
  /\ pc \in {"idle", "done", "failed"}
  /\ hist.steps < cfg.iterations
  /\ pc' = "collect"
  /\ theta_id' = PutTheta(theta)
  /\ num_episodes' = 0
  /\ num_timesteps' = 0
  /\ results' = <<>>
  /\ report' = NoReport
  /\ hist' = [steps |-> hist.steps + 1, round_starts |-> <<>>,
              calls |-> [w \in WorkerIds |-> 0],
              produced |-> [w \in WorkerIds |-> <<>>],
              legs |-> [w \in WorkerIds |-> <<>>],
              snap |-> Snapshot,
              iters |-> hist.iters, restored |-> hist.restored]
  /\ UNCHANGED <<cfg, probe, noise, workers, theta, optimizer, episodes_so_far,
                 counters>>

\* Mutant: the loop stops as soon as either quota is met.
QuotaUnmetEither(ne, nt) ==
  ne < cfg.episodes_per_batch /\ nt < cfg.train_batch_size

\* The loop condition of _collect_results.
QuotaUnmet(ne, nt) ==
  ne < cfg.episodes_per_batch \/ nt < cfg.train_batch_size

\* Mutant: the last worker of the pool is left out.
CallTargetsButLast == WorkerIds \ {Len(workers)}

\* The workers the comprehension over self.workers calls.
CallTargets == WorkerIds

\* One pass of the loop up to ray.get: do_rollouts.remote(theta_id) on every
\* worker of the pool.
CollectRound ==
  /\ pc = "collect"
  /\ QuotaUnmet(num_episodes, num_timesteps)
  /\ pc' = "wait"
  /\ workers' = [w \in WorkerIds |->
                   IF w \in CallTargets
                     THEN [workers[w] EXCEPT !.pc = "called",
                                             !.params = theta_id]
                     ELSE workers[w]]
  /\ hist' = [hist EXCEPT
                !.round_starts = Append(@, <<num_episodes, num_timesteps>>),
                !.calls = [w \in WorkerIds |->
                             IF w \in CallTargets THEN @[w] + 1 ELSE @[w]]]
  /\ UNCHANGED <<cfg, probe, noise, theta, optimizer, episodes_so_far, counters,
                 theta_id, num_episodes, num_timesteps, results, report>>

\* Mutant: the first outcome ends the wait.
RoundOverFirst == \E w \in WorkerIds : workers[w].pc \in {"returned", "raised"}

\* ray.get(rollout_ids) has every call's outcome: it blocks until each call
\* of the list has returned or raised.
RoundOver == \A w \in WorkerIds : workers[w].pc \in {"returned", "raised"}

\* Mutant: the evaluation episodes of the bundle are counted too.
EpisodesOfAll(result) ==
  Sum([k \in 1..Len(result.noisy_lengths) |-> Len(result.noisy_lengths[k])])
  + Len(result.eval_lengths)

\* sum(len(pair) for pair in result.noisy_lengths)
EpisodesOf(result) ==
  Sum([k \in 1..Len(result.noisy_lengths) |-> Len(result.noisy_lengths[k])])

\* Mutant: only the first rollout of each pair is counted.
TimestepsOfFirstLeg(result) ==
  Sum([k \in 1..Len(result.noisy_lengths) |-> result.noisy_lengths[k][1]])

\* sum(sum(pair) for pair in result.noisy_lengths)
TimestepsOf(result) ==
  Sum([k \in 1..Len(result.noisy_lengths) |-> Sum(result.noisy_lengths[k])])

\* The results ray.get hands back, in the order of rollout_ids.
RoundResults == [w \in WorkerIds |-> workers[w].acc]

\* The actors are free again once their calls' outcomes are fetched.
Released ==
  [w \in WorkerIds |->
     IF workers[w].pc \in {"returned", "raised"}
       THEN [workers[w] EXCEPT !.pc = "idle", !.acc = NoBundle, !.clock = 0]
       ELSE workers[w]]

\* The loop over the results ray.get returned.
GatherReturns(rs) ==
  /\ pc' = "collect"
  /\ results' = results \o rs
  /\ num_episodes' = num_episodes +
       Sum([k \in 1..Len(rs) |-> EpisodesOf(rs[k])])
  /\ num_timesteps' = num_timesteps +
       Sum([k \in 1..Len(rs) |-> TimestepsOf(rs[k])])

\* Mutant: the results of the calls that failed are skipped and the loop
\* goes on with the others.
GatherSkipsFailed ==
  GatherReturns(SelectSeq(RoundResults, LAMBDA r : r.noise_indices # <<>>))

\* ray.get raises the exception of a failed call: it leaves
\* _collect_results and ES.step, whose locals are gone.
GatherRaises ==
  /\ pc' = "failed"
  /\ results' = <<>>
  /\ num_episodes' = 0
  /\ num_timesteps' = 0

\* ray.get(rollout_ids) and the loop over what it returns.
CollectGather ==
  /\ pc = "wait"
  /\ RoundOver
  /\ workers' = Released
  /\ IF \E w \in WorkerIds : workers[w].pc = "raised"
       THEN GatherRaises
       ELSE GatherReturns(RoundResults)
  /\ UNCHANGED <<cfg, probe, noise, theta, optimizer, episodes_so_far, counters,
                 theta_id, report, hist>>

\* Mutant: the rows of the array are counted, not its entries.
SizeRows(pairs) == Len(pairs)

\* ndarray.size of an array of N pairs
Size(pairs) == 2 * Len(pairs)

\* What ES.step reports, with what it computed on the way.
StepReport(rs, grad, ne, nt, so_far) ==
  [done |-> TRUE,
   results |-> rs,
   num_episodes |-> ne,
   num_timesteps |-> nt,
   noise_indices |-> all_noise_indices(rs),
   noisy_returns |-> all_training_returns(rs),
   noisy_lengths |-> all_training_lengths(rs),
   g |-> [num |-> grad.num, den |-> grad.den],
   weights |-> grad.weights,
   weight_den |-> grad.weight_den,
   count |-> grad.count,
   size |-> 2 * Len(all_training_returns(rs)),
   episodes_this_iter |-> Size(all_training_lengths(rs)),
   timesteps_this_iter |->
     Sum([k \in 1..Len(all_training_lengths(rs)) |->
            Sum(all_training_lengths(rs)[k])]),
   episodes_so_far |-> so_far]

\* _collect_results returns and ES.step runs to its end: the counters, the
\* aggregation, the optimizer's update and the report.
StepFinish ==
  /\ pc = "collect"
  /\ ~QuotaUnmet(num_episodes, num_timesteps)
  /\ LET grad == Gradient(noise, results, cfg.num_params)
         upd == AdamUpdate(optimizer, theta, grad)
     IN  IF StepAsserts(results, grad, cfg.num_params)
           THEN /\ pc' = "done"
                /\ counters' =
                     [agent_sampled |-> counters.agent_sampled + num_timesteps,
                      env_sampled |-> counters.env_sampled + num_timesteps,
                      agent_trained |-> counters.agent_trained + num_timesteps,
                      env_trained |-> counters.env_trained + num_timesteps]
                /\ episodes_so_far' = episodes_so_far + num_episodes
                /\ optimizer' = upd.opt
                /\ theta' = upd.theta
                /\ report' = StepReport(results, grad, num_episodes,
                                        num_timesteps,
                                        episodes_so_far + num_episodes)
                /\ hist' = [hist EXCEPT
                     !.iters = Append(@, Size(all_training_lengths(results)))]
           ELSE /\ pc' = "failed"
                /\ counters' =
                     [counters EXCEPT
                        !.agent_sampled = @ + num_timesteps,
                        !.env_sampled = @ + num_timesteps]
                /\ episodes_so_far' =
                     IF ListAsserts(results)
                       THEN episodes_so_far + num_episodes
                       ELSE episodes_so_far
                /\ UNCHANGED <<optimizer, theta, report, hist>>
  /\ UNCHANGED <<cfg, probe, noise, workers, theta_id, num_episodes, num_timesteps,
                 results>>

\* ES.set_weights(weights): the weights of the policy are replaced. The
\* driver calls it between training iterations.
set_weights ==
  /\ pc \in {"idle", "done", "failed"}
  /\ \E weights \in {[k \in 1..cfg.num_params |-> 1]} :
       /\ theta # weights
       /\ theta' = weights
  /\ UNCHANGED <<cfg, probe, pc, noise, workers, optimizer, episodes_so_far,
                 counters, theta_id, num_episodes, num_timesteps, results,
                 report, hist>>

\* The checkpoint __getstate__ returns right after setup.
Checkpoints == {[weights |-> cfg.theta0, episodes_so_far |-> 0]}

\* ES.__setstate__(state): episodes_so_far and the weights of the policy are
\* replaced by those of the checkpoint. The driver calls it between training
\* iterations.
__setstate__ ==
  /\ pc \in {"idle", "done", "failed"}
  /\ \E state \in Checkpoints :
       /\ <<theta, episodes_so_far>> # <<state.weights, state.episodes_so_far>>
       /\ episodes_so_far' = state.episodes_so_far
       /\ theta' = state.weights
       /\ hist' = [hist EXCEPT
            !.restored = [at |-> Len(hist.iters),
                          episodes_so_far |-> state.episodes_so_far]]
  /\ UNCHANGED <<cfg, probe, pc, noise, workers, optimizer, counters,
                 theta_id, num_episodes, num_timesteps, results, report>>

\* ----------------------------------------------------------- specification
Next ==
  \/ Setup
  \/ StepBegin
  \/ CollectRound
  \/ CollectGather
  \/ StepFinish
  \/ set_weights
  \/ __setstate__
  \/ \E w \in WorkerIds : DoRolloutsBegin(w)
  \/ \E w \in WorkerIds : EvalRollout(w)
  \/ \E w \in WorkerIds : PerturbRollout(w)
  \/ \E w \in WorkerIds : RolloutRaises(w)
  \/ \E w \in WorkerIds : DoRolloutsReturn(w)

Spec == Init /\ [][Next]_vars

\* Runs in which every rollout completes, so that every call of do_rollouts
\* returns, and in which whatever can run does: an actor takes the call it
\* was sent, a pass of its loop or the return follows while the call runs,
\* the perturbation branch is taken at some pass, the clock advances with
\* every pass, and the coordinator goes on when ray.get has its results.
NextLive ==
  \/ Setup
  \/ StepBegin
  \/ CollectRound
  \/ CollectGather
  \/ StepFinish
  \/ set_weights
  \/ __setstate__
  \/ \E w \in WorkerIds : DoRolloutsBegin(w)
  \/ \E w \in WorkerIds : EvalRollout(w)
  \/ \E w \in WorkerIds : PerturbRollout(w)
  \/ \E w \in WorkerIds : DoRolloutsReturn(w)

\* The coordinator inside _collect_results sends the calls of a round when
\* a quota is unmet and takes the results when ray.get has them.
CoordinatorProgress == CollectRound \/ CollectGather

\* Some actor with a call takes it, runs a perturbation pass or returns.
WorkerProgress ==
  \E w \in WorkerIds :
    DoRolloutsBegin(w) \/ PerturbRollout(w) \/ DoRolloutsReturn(w)

Fairness == WF_vars(CoordinatorProgress) /\ WF_vars(WorkerProgress)

SpecLive == Init /\ [][NextLive]_vars /\ Fairness

\* Single calls of do_rollouts under every kind of eval_prob: never
\* evaluating (0), mixed (3 percent), always evaluating (100 percent), with
\* a min_task_runtime of one and of two ticks.
CallConfigs ==
  { [BaseConfig EXCEPT !.eval_prob = p, !.min_task_runtime = r] :
      p \in {0, 3, 100}, r \in 1..2 }

SpecCall == InitWith(CallConfigs) /\ [][NextLive]_vars /\ Fairness

\* The end-to-end scenario's run: a table of 1000 values, four parameters,
\* noise_stdev = 0.1, theta = 0, one worker.
E2EConfig ==
  [BaseConfig EXCEPT !.noise_size = 1000, !.num_params = 4, !.stdev_den = 10,
                     !.theta0 = <<0, 0, 0, 0>>, !.env = EnvE2E]

SpecE2E == InitWith({E2EConfig}) /\ [][Next]_vars

\* ------------------------------------------------- the table's operations
\* The table's operations called directly, on tables of every length up to
\* MaxCount: get with any index and length, sample_index with any length
\* that fits, followed by get at the index it returned. get is a slice of
\* the array and has no statement that raises.
InitNoise ==
  /\ cfg = BaseConfig
  /\ probe = NoProbe
  /\ pc = "probe"
  /\ \E count \in 1..MaxCount : noise = create_shared_noise(count)
  /\ workers = <<>>
  /\ theta = <<>>
  /\ optimizer = [t |-> 0, m |-> <<>>, v |-> <<>>]
  /\ episodes_so_far = 0
  /\ counters = [agent_sampled |-> 0, env_sampled |-> 0,
                 agent_trained |-> 0, env_trained |-> 0]
  /\ theta_id = <<>>
  /\ num_episodes = 0
  /\ num_timesteps = 0
  /\ results = <<>>
  /\ report = NoReport
  /\ hist = NoHist

ProbeGet ==
  /\ pc = "probe"
  /\ \E i \in 0..MaxCount, dim \in 0..MaxCount :
       probe' = [op |-> "get", i |-> i, dim |-> dim, raised |-> FALSE,
                 out |-> get(noise, i, dim)]
  /\ UNCHANGED <<cfg, pc, noise, workers, theta, optimizer, episodes_so_far,
                 counters, theta_id, num_episodes, num_timesteps, results,
                 report, hist>>

ProbeSample ==
  /\ pc = "probe"
  /\ \E dim \in 1..Len(noise) :
       \E index \in sample_index(noise, dim) :
         probe' = [op |-> "sample", i |-> index, dim |-> dim,
                   raised |-> FALSE, out |-> get(noise, index, dim)]
  /\ UNCHANGED <<cfg, pc, noise, workers, theta, optimizer, episodes_so_far,
                 counters, theta_id, num_episodes, num_timesteps, results,
                 report, hist>>

NextNoise == ProbeGet \/ ProbeSample

SpecNoise == InitNoise /\ [][NextNoise]_vars

\* --------------------------------------------- the aggregation's functions
\* batched_weighted_sum and compute_centered_ranks called directly. The
\* inputs are drawn at the start: up to MaxPairs weights with as many
\* vectors of one or two entries, or up to MaxPairs pairs of returns. The
\* sum is taken with every batch size up to the number of pairs and with
\* the 500 of ES.step; the ranks are taken of the returns as they are and
\* mapped through a strictly increasing map.
SumWeights == {-1, 1, 2}
SumEntries == {-1, 1}
RankReturns == -1..1

\* Sequences of length n over S.
Tuples(n, S) == [1..n -> S]

\* The strictly increasing maps from the returns into a wider range.
Increasing ==
  {f \in [RankReturns -> -2..2] :
     \A x, y \in RankReturns : x < y => f[x] < f[y]}

InitAgg ==
  /\ cfg = BaseConfig
  /\ pc = "probe"
  /\ \E n \in 1..MaxPairs :
       \/ \E dim \in 1..2 :
            \E weights \in Tuples(n, SumWeights),
               vectors \in Tuples(n, Tuples(dim, SumEntries)) :
              probe = [op |-> "sum_input", weights |-> weights,
                       vectors |-> vectors, dim |-> dim]
       \/ \E returns \in Tuples(n, Tuples(2, RankReturns)) :
            probe = [op |-> "rank_input", returns |-> returns]
  /\ noise = <<>>
  /\ workers = <<>>
  /\ theta = <<>>
  /\ optimizer = [t |-> 0, m |-> <<>>, v |-> <<>>]
  /\ episodes_so_far = 0
  /\ counters = [agent_sampled |-> 0, env_sampled |-> 0,
                 agent_trained |-> 0, env_trained |-> 0]
  /\ theta_id = <<>>
  /\ num_episodes = 0
  /\ num_timesteps = 0
  /\ results = <<>>
  /\ report = NoReport
  /\ hist = NoHist

\* g, count = utils.batched_weighted_sum(weights, vectors, batch_size)
ProbeSum ==
  /\ pc = "probe"
  /\ probe.op = "sum_input"
  /\ \E batch_size \in 1..Len(probe.weights) \cup {500} :
       probe' = [op |-> "sum", weights |-> probe.weights,
                 vectors |-> probe.vectors, dim |-> probe.dim,
                 batch_size |-> batch_size,
                 out |-> batched_weighted_sum(probe.weights, probe.vectors,
                                              batch_size, probe.dim)]
  /\ UNCHANGED <<cfg, pc, noise, workers, theta, optimizer, episodes_so_far,
                 counters, theta_id, num_episodes, num_timesteps, results,
                 report, hist>>

\* utils.compute_centered_ranks(returns) and
\* utils.compute_centered_ranks(f(returns))
ProbeRanks ==
  /\ pc = "probe"
  /\ probe.op = "rank_input"
  /\ \E f \in Increasing :
       LET mapped == [i \in 1..Len(probe.returns) |->
                        <<f[probe.returns[i][1]], f[probe.returns[i][2]]>>]
       IN  probe' = [op |-> "ranks", returns |-> probe.returns,
                     mapped |-> mapped,
                     out |-> compute_centered_ranks(probe.returns),
                     out_mapped |-> compute_centered_ranks(mapped)]
  /\ UNCHANGED <<cfg, pc, noise, workers, theta, optimizer, episodes_so_far,
                 counters, theta_id, num_episodes, num_timesteps, results,
                 report, hist>>

NextAgg == ProbeSum \/ ProbeRanks

SpecAgg == InitAgg /\ [][NextAgg]_vars

\* ================================================================ properties
Rounds == Len(hist.round_starts)

\* C1. Quota satisfaction: the counts _collect_results returns are at least
\* the quotas, min_episodes and min_timesteps, and every round it ran was
\* started with one of the two quotas still unmet.
C1_QuotaSatisfaction ==
  /\ report.done =>
       /\ report.num_episodes >= cfg.episodes_per_batch
       /\ report.num_timesteps >= cfg.train_batch_size
  /\ \A k \in 1..Rounds :
       \/ hist.round_starts[k][1] < cfg.episodes_per_batch
       \/ hist.round_starts[k][2] < cfg.train_batch_size

\* C1 happens: a collection of several rounds returned, with the episode
\* quota met from the first round on and the timestep quota binding.
C1_Witness ==
  /\ report.done
  /\ Rounds >= 2
  /\ hist.round_starts[2][1] >= cfg.episodes_per_batch
  /\ hist.round_starts[2][2] < cfg.train_batch_size

\* C2. A round is a barrier: every worker is called exactly once per round,
\* the coordinator is back at the quota check only with every call of the
\* round returned and its bundle appended, and the bundles collected are
\* (rounds) x (workers), also in what _collect_results returns.
C2_RoundBarrier ==
  /\ pc \in {"collect", "wait", "done"} =>
       \A w \in WorkerIds : hist.calls[w] = Rounds
  /\ pc = "collect" =>
       /\ \A w \in WorkerIds :
            workers[w].pc = "idle" /\ Len(hist.produced[w]) = Rounds
       /\ Len(results) = Rounds * cfg.num_workers
  /\ report.done => Len(report.results) = Rounds * cfg.num_workers

\* C2 happens: a collection returned all bundles of its round although the
\* first bundle alone had met both quotas.
C2_Witness ==
  /\ report.done
  /\ cfg.num_workers = 2
  /\ Len(report.results) = 2
  /\ EpisodesOf(report.results[1]) >= cfg.episodes_per_batch
  /\ TimestepsOf(report.results[1]) >= cfg.train_batch_size

\* C3. No stale parameters: a worker that has a do_rollouts call, queued or
\* running, has the coordinator's current theta as its params.
C3_NoStaleTheta ==
  \A w \in WorkerIds :
    workers[w].pc \in {"called", "running"} => workers[w].params = theta

\* C3 happens: a worker runs do_rollouts in an iteration that follows an
\* update of theta.
C3_Witness ==
  \E w \in WorkerIds :
    /\ workers[w].pc = "running"
    /\ hist.steps = 2
    /\ theta # cfg.theta0
    /\ optimizer.t = 1

AllIdle == \A w \in WorkerIds : workers[w].pc = "idle"

\* The update step of a training iteration, and a call of set_weights.
IsUpdate == pc = "collect" /\ pc' = "done"
IsSetWeights == pc \in {"idle", "done", "failed"} /\ pc' = pc /\ AllIdle

C8_FailureAborts ==
  [][/\ (pc = "wait" /\ pc' # pc /\ \E w \in WorkerIds :
                                      workers[w].pc = "raised")
          => pc' = "failed"
     /\ (pc = "wait" /\ pc' = "failed") =>
          /\ theta' = hist.snap.theta
          /\ optimizer' = hist.snap.optimizer
          /\ episodes_so_far' = hist.snap.episodes_so_far
          /\ counters' = hist.snap.counters
          /\ report' = NoReport
          /\ results' = <<>>
          /\ hist'.calls = hist.calls
          /\ \A w \in WorkerIds :
               hist.calls[w] = Rounds /\ workers'[w].pc = "idle"
    ]_vars

\* C8 happens: an iteration was aborted in its second round, after a first
\* round all of whose calls had returned.
C8_Witness ==
  /\ pc = "failed"
  /\ Rounds = 2
  /\ \A w \in WorkerIds : Len(hist.produced[w]) >= 1
  /\ theta = hist.snap.theta

\* The perturbation records of a bundle.
RecordsOf(b) ==
  [k \in 1..Len(b.noise_indices) |->
     <<b.noise_indices[k], b.noisy_returns[k], b.noisy_lengths[k]>>]

\* The records the workers returned in this iteration.
Produced ==
  Flatten([w \in WorkerIds |->
             Flatten([k \in 1..Len(hist.produced[w]) |->
                        RecordsOf(hist.produced[w][k])])])

\* The records the aggregation of the last step used.
Aggregated ==
  [i \in 1..Len(report.noise_indices) |->
     <<report.noise_indices[i], report.noisy_returns[i],
       report.noisy_lengths[i]>>]

Occurrences(s, x) == Cardinality({k \in 1..Len(s) : s[k] = x})

SameBag(s, t) ==
  /\ Len(s) = Len(t)
  /\ \A k \in 1..Len(s) : Occurrences(s, s[k]) = Occurrences(t, s[k])

Reordered(rs, p) == [k \in 1..Len(rs) |-> rs[p[k]]]

GradientOf(rs) == Gradient(noise, rs, cfg.num_params).num

\* C5 as claimed. The gradient estimate of a step is the same for every
\* order of the collected bundles.
C5_Original ==
  report.done =>
    \A p \in Permutations(1..Len(report.results)) :
      GradientOf(Reordered(report.results, p)) = report.g.num

\* No two of the 2N returns are equal.
NoTies(returns) ==
  LET flat == Flatten(returns) IN
  \A i, j \in 1..Len(flat) : i # j => flat[i] # flat[j]

\* C5, amended. When no two of the collected returns are equal, the gradient
\* estimate of a step is the same for every order of the collected bundles.
C5_OrderIndependent ==
  (report.done /\ NoTies(report.noisy_returns)) =>
    \A p \in Permutations(1..Len(report.results)) :
      GradientOf(Reordered(report.results, p)) = report.g.num

\* C5 happens: a step aggregated two bundles with four different returns
\* and different noise windows.
C5_Witness ==
  /\ report.done
  /\ Len(report.results) = 2
  /\ NoTies(report.noisy_returns)
  /\ report.noise_indices[1] # report.noise_indices[2]
  /\ report.g.num # Zeros(cfg.num_params)

\* The end-to-end scenario: theta = 0, one bundle of one perturbation at
\* noise index 10 whose rollouts returned [1, 1] and [-1, -1].
E2EScenario ==
  /\ report.done
  /\ hist.snap.theta = <<0, 0, 0, 0>>
  /\ Len(report.results) = 1
  /\ Len(hist.legs[1]) = 1
  /\ hist.legs[1][1].noise_index = 10
  /\ hist.legs[1][1].rewards_pos = <<1, 1>>
  /\ hist.legs[1][1].rewards_neg = <<-1, -1>>

\* table[10..13]
E2EWindow == [k \in 1..4 |-> NoiseAt(9 + k)]

\* C10 as claimed. In the scenario the returns are 2 and -2, the difference
\* of the rank scores is 1 and g = 0.1 * table[10..13] / 2.
C10_Original ==
  E2EScenario =>
    /\ report.noisy_returns = << <<2, -2>> >>
    /\ report.weights = <<report.weight_den>>
    /\ \A k \in 1..4 : 10 * 2 * report.g.num[k] = E2EWindow[k] * report.g.den

\* C10, amended. In the scenario the returns are 2 and -2, the difference
\* of the rank scores is 1 and g = table[10..13] / 2: the window is not
\* scaled by noise_stdev.
C10_EndToEnd ==
  E2EScenario =>
    /\ report.noise_indices = <<10>>
    /\ report.noisy_returns = << <<2, -2>> >>
    /\ report.weights = <<report.weight_den>>
    /\ \A k \in 1..4 : 2 * report.g.num[k] = E2EWindow[k] * report.g.den

\* C10 happens: the scenario ran to the end of the step.
C10_Witness == E2EScenario /\ cfg = E2EConfig /\ optimizer.t = 1

\* C6 as claimed. get(index, length) raises when index + length exceeds the
\* length of the table.
C6_GetRaises ==
  (probe.op = "get" /\ probe.i + probe.dim > Len(noise)) => probe.raised

\* C7. For 1 <= P <= count, an index sample_index(P) returns is in
\* 0..count-P, and get at that index returns the P values at the positions
\* index..index+P-1, all of them in the table.
C7_WindowFits ==
  probe.op = "sample" =>
    /\ 0 <= probe.i /\ probe.i <= Len(noise) - probe.dim
    /\ ~probe.raised
    /\ Len(probe.out) = probe.dim
    /\ \A k \in 1..probe.dim :
         probe.i + k <= Len(noise) /\ probe.out[k] = NoiseAt(probe.i + k - 1)

\* C7 happens: the last window of a table was sampled and fetched.
C7_Witness ==
  /\ probe.op = "sample"
  /\ probe.dim >= 2
  /\ probe.i >= 1
  /\ probe.i = Len(noise) - probe.dim

\* The sum of weights[i] * vectors[i] over all pairs, entry by entry.
UnbatchedSum(weights, vectors, dim) ==
  [k \in 1..dim |->
     Sum([i \in 1..Len(weights) |-> weights[i] * vectors[i][k]])]

\* C11. batched_weighted_sum over N weights and N vectors of length P
\* returns a sum of length P equal to the unbatched sum of
\* weights[i] * vectors[i] and count = N, and the same result for every
\* batch size in 1..N (and for the 500 ES.step passes).
C11_BatchSizeIndependent ==
  probe.op = "sum" =>
    LET N == Len(probe.weights)
        P == probe.dim
    IN  /\ Len(probe.out.total) = P
        /\ probe.out.total = UnbatchedSum(probe.weights, probe.vectors, P)
        /\ probe.out.count = N
        /\ \A b \in 1..N :
             batched_weighted_sum(probe.weights, probe.vectors, b, P)
               = probe.out

\* C11 happens: three pairs were summed in batches of two, the last batch
\* short, to a sum that is not zero.
C11_Witness ==
  /\ probe.op = "sum"
  /\ Len(probe.weights) = 3
  /\ probe.batch_size = 2
  /\ probe.dim = 2
  /\ probe.out.count = 3
  /\ probe.out.total # <<0, 0>>

\* C12. compute_centered_ranks is invariant under strictly monotonic
\* rescaling: for N pairs of returns and a strictly increasing map f, the
\* transform of f(returns) is the transform of returns, ties ranked in their
\* original order in both.
C12_RankInvariance ==
  probe.op = "ranks" =>
    /\ \A i \in 1..Len(probe.returns) : \A c \in 1..2 :
         \A j \in 1..Len(probe.returns) : \A d \in 1..2 :
           (probe.returns[i][c] < probe.returns[j][d])
             <=> (probe.mapped[i][c] < probe.mapped[j][d])
    /\ probe.out_mapped = probe.out

\* C12 happens: returns with a tie were mapped through a map that is not
\* affine and changed all of them.
C12_Witness ==
  /\ probe.op = "ranks"
  /\ probe.returns = << <<0, 1>>, <<-1, 0>> >>
  /\ probe.mapped = << <<1, 2>>, <<-2, 1>> >>
  /\ probe.out = << <<-1, 3>>, <<-3, 1>> >>

\* C13. The noise table is created once, in setup, and nothing modifies or
\* replaces it afterwards: after setup the coordinator's table is the
\* generator's output of noise_size values, every worker's table has the
\* same contents, so that get at any index a worker can sample returns the
\* same window on the worker and on the coordinator, and no step after
\* setup changes the coordinator's table, a worker's table or the pool.
C13_TableShared ==
  /\ [](pc \notin {"new", "config_error"} =>
          /\ noise = [k \in 1..cfg.noise_size |-> NoiseAt(k - 1)]
          /\ \A w \in WorkerIds :
               /\ workers[w].noise = noise
               /\ \A i \in 0..(cfg.noise_size - cfg.num_params) :
                    get(workers[w].noise, i, cfg.num_params)
                      = get(noise, i, cfg.num_params))
  /\ [][/\ noise' # noise => pc = "new"
        /\ pc # "new" =>
             /\ Len(workers') = Len(workers)
             /\ \A w \in WorkerIds : workers'[w].noise = workers[w].noise
       ]_vars

\* C13 happens: in the iteration after an update of theta, a worker
\* returned a bundle whose noise index the coordinator is to look up.
C13_Witness ==
  /\ hist.steps = 2
  /\ optimizer.t = 1
  /\ cfg.num_workers = 2
  /\ \E w \in WorkerIds :
       /\ workers[w].pc = "returned"
       /\ workers[w].acc.noise_indices # <<>>
       /\ workers[w].noise = noise

\* The configurations the claim calls invalid.
Invalid(c) ==
  \/ c.num_workers <= 0
  \/ c.num_gpus > 1
  \/ c.eval_num_envs # 1
  \/ c.eval_filter # "NoFilter"

\* C14. Setup with an invalid configuration fails with a configuration
\* error, with no noise table and no worker created before or after; with
\* a valid configuration setup does not fail, and creates the table and
\* exactly num_workers workers.
C14_ConfigChecked ==
  /\ [](Invalid(cfg) =>
          /\ pc \in {"new", "config_error"}
          /\ noise = <<>>
          /\ workers = <<>>)
  /\ [](~Invalid(cfg) =>
          /\ pc # "config_error"
          /\ pc # "new" =>
               /\ Len(workers) = cfg.num_workers
               /\ Len(noise) = cfg.noise_size)
  /\ [][(pc = "new" /\ Invalid(cfg)) => pc' = "config_error"]_vars

\* C14 happens: setup refused a configuration with an empty pool.
C14_Witness ==
  /\ pc = "config_error"
  /\ cfg.num_workers = 0
  /\ cfg.num_gpus = 0
  /\ noise = <<>>
  /\ workers = <<>>

\* The perturbation passes the workers ran in this iteration, each with its
\* two rollouts.
RanLegs == Flatten([w \in WorkerIds |-> hist.legs[w]])

\* C15. When _collect_results returns, and after every round before, its
\* episode count is twice the number of perturbation records in the bundles
\* collected and its timestep count is the sum of the lengths of the two
\* rollouts of each record; evaluation rollouts add to neither.
C15_CountsExact ==
  /\ pc \in {"collect", "done"} =>
       /\ Sum([k \in 1..Len(results) |-> Len(results[k].noise_indices)])
            = Len(RanLegs)
       /\ num_episodes = 2 * Len(RanLegs)
       /\ num_timesteps =
            Sum([k \in 1..Len(RanLegs) |->
                   Len(RanLegs[k].rewards_pos) + Len(RanLegs[k].rewards_neg)])
  /\ report.done =>
       /\ report.num_episodes = 2 * Len(RanLegs)
       /\ report.num_timesteps =
            Sum([k \in 1..Len(RanLegs) |->
                   Len(RanLegs[k].rewards_pos) + Len(RanLegs[k].rewards_neg)])

\* C15 happens: _collect_results returned two bundles, one of them with an
\* evaluation rollout of two timesteps next to its perturbation records.
C15_Witness ==
  /\ report.done
  /\ Len(report.results) = 2
  /\ report.results[1].eval_lengths = <<2>>
  /\ report.results[2].eval_lengths = <<>>
  /\ report.num_episodes = 4
  /\ report.num_timesteps = 6

\* C16. do_rollouts returns only with at least one perturbation record in
\* its bundle and with min_task_runtime elapsed since the call started;
\* and a call that is at the head of its loop with both conditions true
\* starts no further rollout: its next step is the return, with the bundle
\* and the policy's weights as they are.
C16_ReturnCondition ==
  /\ [](\A w \in WorkerIds :
          /\ workers[w].pc = "returned" =>
               /\ Len(workers[w].acc.noise_indices) >= 1
               /\ workers[w].clock >= cfg.min_task_runtime
          /\ w \in DOMAIN hist.produced =>
               \A k \in 1..Len(hist.produced[w]) :
                 Len(hist.produced[w][k].noise_indices) >= 1)
  /\ [][\A w \in WorkerIds :
          (/\ workers[w].pc = "running"
           /\ Len(workers[w].acc.noise_indices) >= 1
           /\ workers[w].clock >= cfg.min_task_runtime)
          => /\ workers'[w].pc \in {"running", "returned"}
             /\ workers'[w].acc = workers[w].acc
             /\ workers'[w].weights = workers[w].weights
       ]_vars

\* C16 happens: a call returned two records, having gone on after its
\* first record because min_task_runtime had not elapsed.
C16_Witness ==
  \E w \in WorkerIds :
    /\ workers[w].pc = "returned"
    /\ cfg.min_task_runtime = 2
    /\ Len(workers[w].acc.noise_indices) = 2
    /\ workers[w].clock = 2

\* The record a perturbation pass should leave in its bundle.
LegRecord(l) ==
  <<l.noise_index, <<Sum(l.rewards_pos), Sum(l.rewards_neg)>>,
    <<Len(l.rewards_pos), Len(l.rewards_neg)>> >>

\* The records of the bundles a worker returned in this iteration.
ReturnedRecords(w) ==
  Flatten([k \in 1..Len(hist.produced[w]) |-> RecordsOf(hist.produced[w][k])])

\* C17. Every perturbation pass ran its first rollout with the weights
\* params + noise_stdev * table[i : i+P] and its second with
\* params - noise_stdev * table[i : i+P], params being the theta of the
\* iteration and i an index whose window lies in the table; and the records
\* of the bundles a worker returned (with those of the bundle it is filling)
\* are, pass by pass, that index i with the returns and the lengths of these
\* two rollouts in the order (first, second). Weights are in units of
\* 1/stdev_den.
C17_PerturbedLegs ==
  \A w \in WorkerIds :
    w \in DOMAIN hist.legs =>
      /\ \A n \in 1..Len(hist.legs[w]) :
           LET l == hist.legs[w][n] IN
           /\ l.noise_index \in 0..(cfg.noise_size - cfg.num_params)
           /\ Len(l.weights_pos) = cfg.num_params
           /\ Len(l.weights_neg) = cfg.num_params
           /\ \A k \in 1..cfg.num_params :
                /\ l.weights_pos[k] =
                     hist.snap.theta[k]
                       + cfg.stdev_num * NoiseAt(l.noise_index + k - 1)
                /\ l.weights_neg[k] =
                     hist.snap.theta[k]
                       - cfg.stdev_num * NoiseAt(l.noise_index + k - 1)
      /\ (pc # "failed" /\ workers[w].pc # "raised") =>
           (IF workers[w].pc = "running"
              THEN ReturnedRecords(w) \o RecordsOf(workers[w].acc)
              ELSE ReturnedRecords(w))
             = [n \in 1..Len(hist.legs[w]) |-> LegRecord(hist.legs[w][n])]
      /\ workers[w].pc = "running" =>
           \A n \in 1..Len(workers[w].acc.noise_indices) :
             LET l == hist.legs[w][Len(hist.legs[w])
                                   - Len(workers[w].acc.noise_indices) + n]
             IN  workers[w].acc.sign_noisy_returns[n] =
                   <<SignSum(l.rewards_pos), SignSum(l.rewards_neg)>>

\* C17 happens: a call returned two records with different noise indices and
\* different outcomes of the four rollouts' pairs.
C17_Witness ==
  \E w \in WorkerIds :
    /\ workers[w].pc = "returned"
    /\ workers[w].acc.noise_indices = <<1, 0>>
    /\ workers[w].acc.noisy_returns = << <<2, -1>>, <<-1, 2>> >>
    /\ Len(hist.legs[w]) = 2
    /\ hist.legs[w][1].weights_pos = <<3, 2>>
    /\ hist.legs[w][1].weights_neg = <<-3, -2>>

\* C18. Every evaluation rollout of do_rollouts(params) runs with the
\* policy's weights equal to params, the theta of the iteration, and with
\* action noise off, whatever passes came before it in the call; its return
\* and length are appended to the evaluation accumulators and the
\* perturbation accumulators are left as they are.
C18_EvalUnperturbed ==
  [][\A w \in WorkerIds :
       LET acc == workers[w].acc
           acc2 == workers'[w].acc
       IN  Len(acc2.eval_returns) > Len(acc.eval_returns) =>
             /\ workers'[w].weights = workers[w].params
             /\ workers[w].params = hist.snap.theta
             /\ workers'[w].add_noise = FALSE
             /\ Len(acc2.eval_returns) = Len(acc.eval_returns) + 1
             /\ Len(acc2.eval_lengths) = Len(acc.eval_lengths) + 1
             /\ SubSeq(acc2.eval_returns, 1, Len(acc.eval_returns))
                  = acc.eval_returns
             /\ SubSeq(acc2.eval_lengths, 1, Len(acc.eval_lengths))
                  = acc.eval_lengths
             /\ acc2.noise_indices = acc.noise_indices
             /\ acc2.noisy_returns = acc.noisy_returns
             /\ acc2.sign_noisy_returns = acc.sign_noisy_returns
             /\ acc2.noisy_lengths = acc.noisy_lengths
    ]_vars

\* C18 happens: a call ran an evaluation rollout after a perturbation pass
\* that had left the policy at params - perturbation.
C18_Witness ==
  \E w \in WorkerIds :
    /\ workers[w].pc = "running"
    /\ Len(workers[w].acc.noise_indices) = 1
    /\ workers[w].acc.eval_returns = <<2>>
    /\ workers[w].acc.eval_lengths = <<2>>
    /\ workers[w].weights = workers[w].params
    /\ hist.legs[w][1].weights_neg # workers[w].params
    /\ ~workers[w].add_noise

\* C19. With every call of do_rollouts returning and every rollout at least
\* one timestep long, _collect_results terminates: once called, it gets to
\* the head of its loop with both quotas met, where it returns. Every round
\* adds at least 2 x num_workers to the episode count and to the timestep
\* count.
C19_CollectTerminates ==
  /\ (pc \in {"collect", "wait"})
       ~> (/\ pc = "collect"
           /\ num_episodes >= cfg.episodes_per_batch
           /\ num_timesteps >= cfg.train_batch_size)
  /\ [][(pc = "wait" /\ pc' = "collect") =>
          /\ num_episodes' >= num_episodes + 2 * cfg.num_workers
          /\ num_timesteps' >= num_timesteps + 2 * cfg.num_workers
       ]_vars

\* C19 happens: a collection against a timestep quota of five is at the
\* head of its loop with both quotas met, after more than one round of a
\* single worker.
C19_Witness ==
  /\ pc = "collect"
  /\ cfg.train_batch_size = 5
  /\ cfg.num_workers = 1
  /\ Rounds >= 2
  /\ num_episodes >= cfg.episodes_per_batch
  /\ num_timesteps >= 5
  /\ hist.round_starts[Rounds][2] < 5

\* The lists of a bundle agree in length, and its pairs are pairs.
BundleShape(b) ==
  /\ Len(b.noisy_returns) = Len(b.noise_indices)
  /\ Len(b.sign_noisy_returns) = Len(b.noise_indices)
  /\ Len(b.noisy_lengths) = Len(b.noise_indices)
  /\ Len(b.eval_lengths) = Len(b.eval_returns)
  /\ \A k \in 1..Len(b.noise_indices) :
       /\ Len(b.noisy_returns[k]) = 2
       /\ Len(b.sign_noisy_returns[k]) = 2
       /\ Len(b.noisy_lengths[k]) = 2

\* C20. In every bundle, the one a call is filling or has returned and
\* those the coordinator holds, there are as many noise indices as pairs of
\* returns, of sign returns and of lengths, and as many evaluation returns
\* as evaluation lengths; the same holds of the lists ES.step concatenates
\* from the bundles, and the step never ends on one of its assertions.
C20_BundleShape ==
  /\ [](/\ \A w \in WorkerIds :
             /\ BundleShape(workers[w].acc)
             /\ w \in DOMAIN hist.produced =>
                  \A k \in 1..Len(hist.produced[w]) :
                    BundleShape(hist.produced[w][k])
        /\ \A k \in 1..Len(results) : BundleShape(results[k])
        /\ Len(all_training_returns(results)) = Len(all_noise_indices(results))
        /\ Len(all_training_lengths(results)) = Len(all_noise_indices(results))
        /\ Len(all_eval_lengths(results)) = Len(all_eval_returns(results))
        /\ report.done =>
             /\ Len(report.noisy_returns) = Len(report.noise_indices)
             /\ Len(report.noisy_lengths) = Len(report.noise_indices)
             /\ report.count = Len(report.noise_indices)
             /\ Len(report.g.num) = cfg.num_params)
  /\ [][pc = "collect" => pc' # "failed"]_vars

\* C20 happens: a step aggregated two bundles, each with one perturbation
\* record and one evaluation rollout.
C20_Witness ==
  /\ report.done
  /\ Len(report.results) = 2
  /\ Len(report.noise_indices) = 2
  /\ Len(all_eval_returns(report.results)) = 2
  /\ Len(all_eval_lengths(report.results)) = 2
  /\ Len(report.results[1].sign_noisy_returns) = 1

\* The sum of the entries of s from position lo on.
SumFrom(s, lo) == Sum([k \in 1..(Len(s) - lo + 1) |-> s[lo + k - 1]])

\* The report of a completed iteration agrees with the counts of
\* _collect_results: episodes_this_iter is its episode count,
\* timesteps_this_iter its timestep count, which is what the step added to
\* each of the sampled and trained counters, and the episodes_so_far it
\* reports is the value at the start of the step plus episodes_this_iter.
ReportConsistent ==
  report.done =>
    /\ report.episodes_this_iter = report.num_episodes
    /\ report.timesteps_this_iter = report.num_timesteps
    /\ report.episodes_this_iter = 2 * Len(RanLegs)
    /\ report.episodes_so_far =
         hist.snap.episodes_so_far + report.episodes_this_iter
    /\ counters.agent_sampled =
         hist.snap.counters.agent_sampled + report.timesteps_this_iter
    /\ counters.env_sampled =
         hist.snap.counters.env_sampled + report.timesteps_this_iter
    /\ counters.agent_trained =
         hist.snap.counters.agent_trained + report.timesteps_this_iter
    /\ counters.env_trained =
         hist.snap.counters.env_trained + report.timesteps_this_iter
    /\ hist.iters[Len(hist.iters)] = report.episodes_this_iter

\* C21 as claimed. The report of a completed iteration agrees with the
\* counts of _collect_results, and between iterations episodes_so_far is the
\* sum of episodes_this_iter over the iterations completed.
C21_Original ==
  /\ ReportConsistent
  /\ pc \in {"idle", "done", "failed"} =>
       episodes_so_far = SumFrom(hist.iters, 1)

\* C21, amended. The report of a completed iteration agrees with the counts
\* of _collect_results, and between iterations episodes_so_far is the value
\* the last restored checkpoint held (zero when none was restored) plus the
\* sum of episodes_this_iter over the iterations completed since.
C21_ReportConsistent ==
  /\ ReportConsistent
  /\ pc \in {"idle", "done", "failed"} =>
       episodes_so_far =
         hist.restored.episodes_so_far
           + SumFrom(hist.iters, hist.restored.at + 1)

\* C21 happens: two iterations were completed, with a checkpoint restored
\* between them, and the second reported its own episodes only.
C21_Witness ==
  /\ pc = "done"
  /\ report.done
  /\ Len(hist.iters) = 2
  /\ hist.restored.at = 1
  /\ cfg.num_workers = 2
  /\ report.episodes_this_iter = 4
  /\ report.episodes_so_far = 4
  /\ counters.env_trained = 16

\* C22. With rollouts completing, time advancing and the perturbation branch
\* taken at some pass (eval_prob < 1), a call of do_rollouts eventually
\* returns; with eval_prob >= 1 the evaluation branch is taken at every
\* pass, no perturbation record is ever collected and the call never
\* returns.
C22_CallReturns ==
  /\ \A w \in 1..MaxWorkers :
       (w \in WorkerIds /\ workers[w].pc = "called" /\ cfg.eval_prob < 100)
         ~> (w \in WorkerIds /\ workers[w].pc = "returned")
  /\ [](cfg.eval_prob >= 100 =>
          \A w \in WorkerIds :
            /\ workers[w].pc # "returned"
            /\ workers[w].acc.noise_indices = <<>>
            /\ pc \notin {"done", "failed"})

\* C22 happens: with eval_prob = 1 a call has run evaluation rollouts past
\* min_task_runtime and is still in its loop, with no record.
C22_Witness ==
  /\ cfg.eval_prob = 100
  /\ cfg.min_task_runtime = 1
  /\ \E w \in WorkerIds :
       /\ workers[w].pc = "running"
       /\ workers[w].clock >= cfg.min_task_runtime
       /\ Len(workers[w].acc.eval_returns) >= 1
       /\ workers[w].acc.noise_indices = <<>>

====
